---- MODULE Spec2Model ----
(***************************************************************************)
(* RGB LED calibration firmware: a software-PWM Renderer (rgb.rs) and a    *)
(* knob/button Controller (ui.rs) joined on one cooperative executor and   *)
(* sharing RGB_LEVELS and FRAME_RATE behind two mutexes (main.rs).         *)
(*                                                                         *)
(* A task runs until it reaches an `.await`; every `.await` of the source  *)
(* is a point where the other task may run.  Each action below is the code *)
(* that runs when one await completes, up to the next await.  No `.await`  *)
(* lies between taking a mutex guard and dropping it, so a critical        *)
(* section is part of one action.                                          *)
(***************************************************************************)
EXTENDS Integers, Sequences, FiniteSets, TLC

\* main.rs:82  pub const LEVELS: u32 = 16
LEVELS == 16

\* Raw ADC samples offered to Knob::measure: (i * RawStep) for i in -1..NumRaw.
RawStep == 5600
NumRaw == 2

RawSamples == { i * RawStep : i \in -1..NumRaw }

Leds == 0..2

ControlParameters == {"FrameRate", "Blue", "Green", "Red"}

VARIABLES
    RGB_LEVELS,         \* main.rs:68  shared [u32; 3]
    FRAME_RATE,         \* main.rs:76  shared u64
    rgb_levels_mutex,   \* holder of the RGB_LEVELS mutex: "free", "rgb" or "ui"
    frame_rate_mutex,   \* holder of the FRAME_RATE mutex
    r_pc,               \* the await the Renderer is suspended at
    led,                \* Rgb::run loop variable / Rgb::step argument
    levels,             \* Rgb.levels
    tick_time,          \* Rgb.tick_time
    current_frame_rate, \* Rgb.current_frame_rate
    rgb,                \* Rgb.rgb: the three output pins, TRUE = high
    sleep_us,           \* duration of the Timer the Renderer awaits
    refreshes,          \* reads of RGB_LEVELS by the Renderer in the current frame
    high_us,            \* per pin: microseconds slept with the pin high since the frame's read
    frame_us,           \* microseconds slept by the Renderer since the frame's read
    frame_done,         \* the three steps of the frame have returned
    rgb_log,            \* lines the Renderer printed in its latest segment
    u_pc,               \* the await the Controller is suspended at
    state_levels,       \* Ui.state.levels
    state_frame_rate,   \* Ui.state.frame_rate
    current_parameter,  \* Ui.current_parameter
    parameter,          \* Ui::run local
    raw_knob_value,     \* Ui::run local
    mapped_value,       \* Ui::run local
    changed,            \* Ui::run local
    a_pressed,          \* Ui::read_button_state local
    b_pressed,          \* Ui::read_button_state local
    ui_log,             \* lines the Controller printed in its latest segment
    last_set,           \* the array most recently assigned through set_rgb_levels
    sweep,              \* knob sweep scenario: the knob value of the next tick
    adc_buf             \* knob scenario: the sample the ADC delivers (knob.rs:61 buf[0])

shared == <<RGB_LEVELS, FRAME_RATE, rgb_levels_mutex, frame_rate_mutex>>
renderer == <<r_pc, led, levels, tick_time, current_frame_rate, rgb, sleep_us, refreshes,
              high_us, frame_us, frame_done, rgb_log>>
controller == <<u_pc, state_levels, state_frame_rate, current_parameter,
                parameter, raw_knob_value, mapped_value, changed,
                a_pressed, b_pressed, ui_log>>
history == <<last_set>>
scenario == <<sweep, adc_buf>>
vars == <<shared, renderer, controller, history, scenario>>

----------------------------------------------------------------------------
\* Pure functions

Clamp(x, lo, hi) == IF x < lo THEN lo ELSE IF x > hi THEN hi ELSE x

frame_tick_time_NoChannelFactor(frame_rate) == 1000000 \div (frame_rate * LEVELS)

\* rgb.rs:85  1_000_000 / (3 * frame_rate * LEVELS), u64 division
frame_tick_time(frame_rate) == 1000000 \div (3 * frame_rate * LEVELS)

MeasureNoUpperClamp(raw) ==
    LET r == Clamp(raw, 0, 32767)
        x == (LEVELS + 2) * r - 20000
    IN  (IF x < 0 THEN 0 ELSE x) \div 10000

\* knob.rs:60  Knob::measure on the sample `raw`.  The f32 expression
\* (LEVELS + 2) * (raw / 10000.0) - 2.0 is carried in units of 1/10000: the
\* exact value is an integer only at raw = 5000 and 10000, where every f32
\* step is exact, and elsewhere it is at least 2/10000 away from an integer,
\* far more than the f32 rounding error, so floor() agrees with the exact one.
Measure(raw) ==
    LET r == Clamp(raw, 0, 32767)
        x == (LEVELS + 2) * r - 20000
        c == Clamp(x, 0, (LEVELS - 1) * 10000)
    IN  c \div 10000

read_button_state_BlueGreenSwapped(a, b) ==
    CASE ~a /\ ~b -> "FrameRate"
      [] a /\ ~b  -> "Green"
      [] ~a /\ b  -> "Blue"
      [] a /\ b   -> "Red"

\* ui.rs:136  Ui::read_button_state; a, b: button is low (pressed)
read_button_state(a, b) ==
    CASE ~a /\ ~b -> "FrameRate"
      [] a /\ ~b  -> "Blue"
      [] ~a /\ b  -> "Green"
      [] a /\ b   -> "Red"

map_knob_value_NoOffset(knob_value, p) ==
    IF p = "FrameRate" THEN knob_value * 10 ELSE knob_value

\* ui.rs:157  Ui::map_knob_value
map_knob_value(knob_value, p) ==
    IF p = "FrameRate" THEN 10 + (knob_value * 10) ELSE knob_value

idx_GreenBlueSwapped(p) == CASE p = "Red" -> 0 [] p = "Green" -> 2 [] p = "Blue" -> 1

\* index of a colour parameter in the levels arrays (ui.rs:219-236)
idx(p) == CASE p = "Red" -> 0 [] p = "Green" -> 1 [] p = "Blue" -> 2

GuardLeak(task) == task

\* main.rs:101,135,152,177  the MutexGuard goes out of scope at the end of
\* get_* / set_*: the mutex is free again
GuardDrop(task) == "free"

----------------------------------------------------------------------------
\* rgb.rs:99-107 Rgb::new(pins, frame_rate), called at main.rs:224-225 with
\* the FRAME_RATE read there; the Renderer is at its first await
RendererInit(frame_rate) ==
    /\ r_pc = "get_rgb_levels"
    /\ led = 0
    /\ levels = [i \in Leds |-> 0]
    /\ tick_time = frame_tick_time(frame_rate)
    /\ current_frame_rate = frame_rate
    /\ rgb = [i \in Leds |-> FALSE]
    /\ sleep_us = 0
    /\ refreshes = 0
    /\ high_us = [i \in Leds |-> 0]
    /\ frame_us = 0
    /\ frame_done = FALSE
    /\ rgb_log = <<>>

\* ui.rs:119-127 Ui::new with ui.rs:94-101 UiState::default; the Controller
\* is at its first await (ui.rs:192)
ControllerInit ==
    /\ u_pc = "seed_measure"
    /\ state_levels = [i \in Leds |-> LEVELS - 1]
    /\ state_frame_rate = 100
    /\ current_parameter = "FrameRate"
    /\ parameter = "FrameRate"
    /\ raw_knob_value = 0
    /\ mapped_value = 0
    /\ changed = FALSE
    /\ a_pressed = FALSE
    /\ b_pressed = FALSE
    /\ ui_log = <<>>

\* main.rs:68, 76: the statics, both mutexes free
SharedInit(rgb_levels, frame_rate) ==
    /\ RGB_LEVELS = rgb_levels
    /\ FRAME_RATE = frame_rate
    /\ rgb_levels_mutex = "free"
    /\ frame_rate_mutex = "free"
    /\ last_set = rgb_levels

Init ==
    /\ SharedInit([i \in Leds |-> 0], 100)
    /\ RendererInit(100)
    /\ ControllerInit
    /\ sweep = 0
    /\ adc_buf = 0

----------------------------------------------------------------------------
\* Diagnostic log lines (rprintln!)

\* ui.rs:84-91  UiState::show: the blank line and the four labelled lines
ShowBlock(lv, fr) == [kind |-> "show", levels |-> lv, frame_rate |-> fr]

\* ui.rs:203  "Now controlling: {:?}"
NowControlling(p) == [kind |-> "now_controlling", parameter |-> p]

\* ui.rs:249  "Frame rate changed to : {} fps"
FrameRateChanged(fr) == [kind |-> "frame_rate_changed", frame_rate |-> fr]

\* rgb.rs:182  "RGB: Frame rate updated to {} fps"
FrameRateUpdated(fr) == [kind |-> "frame_rate_updated", frame_rate |-> fr]

\* number of lines of one kind in a log
Count(log, k) == Cardinality({i \in DOMAIN log : log[i].kind = k})

----------------------------------------------------------------------------
\* Renderer (rgb.rs)

set_low_Skipped(pins, l) == pins

\* rgb.rs:149  self.rgb[led].set_low()
set_low(pins, l) == [pins EXCEPT ![l] = FALSE]

\* rgb.rs:146  self.rgb[led].set_high()
set_high(pins, l) == [pins EXCEPT ![l] = TRUE]

RefreshLevelsRedOnly(cache, sharedLevels) == [cache EXCEPT ![0] = sharedLevels[0]]

RefreshLevelsStale(cache, sharedLevels) == cache

\* rgb.rs:176  self.levels = get_rgb_levels().await  (main.rs:98-101: the
\* whole array is copied out under the guard)
RefreshLevels(cache, sharedLevels) == sharedLevels

FrameTopSkipLevels == "get_frame_rate"

\* rgb.rs:175-176  `loop`: after channel 2 the Renderer is back at
\* get_rgb_levels().await
FrameTop == "get_rgb_levels"

RECURSIVE StepEnter(_, _, _), StepOff(_, _, _)

\* rgb.rs:184-186 and 143-150: `for led in 0..3 { self.step(led).await }` from
\* channel l on, up to the next Timer await (or to the top of the loop).
\* The result is the Renderer's position, its pins and the Timer it awaits.
StepEnter(l, pins, tick) ==
    IF l = 3
    THEN [r_pc |-> FrameTop, led |-> 0, rgb |-> pins, sleep_us |-> 0, refreshes |-> 0]
    ELSE IF levels[l] > 0
         THEN [r_pc |-> "on_sleep", led |-> l, rgb |-> set_high(pins, l),
               sleep_us |-> levels[l] * tick, refreshes |-> refreshes]
         ELSE StepOff(l, pins, tick)

StepOffSkipped(l, pins, tick) == StepEnter(l + 1, pins, tick)

StepOffOneTickShort(l, pins, tick) ==
    IF LEVELS - 1 - levels[l] > 0
    THEN [r_pc |-> "off_sleep", led |-> l, rgb |-> pins,
          sleep_us |-> (LEVELS - 1 - levels[l]) * tick, refreshes |-> refreshes]
    ELSE StepEnter(l + 1, pins, tick)

\* rgb.rs:151-155: the off phase of step(l); skipped when LEVELS - level = 0
StepOff(l, pins, tick) ==
    IF LEVELS - levels[l] > 0
    THEN [r_pc |-> "off_sleep", led |-> l, rgb |-> pins,
          sleep_us |-> (LEVELS - levels[l]) * tick, refreshes |-> refreshes]
    ELSE StepEnter(l + 1, pins, tick)

\* the Renderer is suspended at one of the two Timers of Rgb::step
InStep(pc) == pc \in {"on_sleep", "off_sleep"}

\* a Timer of sleep_us microseconds has elapsed: every pin that was high
\* during it has been high for that much longer
HighAfterSleep == [i \in Leds |-> high_us[i] + (IF rgb[i] THEN sleep_us ELSE 0)]

Goto(pos) ==
    /\ r_pc' = pos.r_pc
    /\ led' = pos.led
    /\ rgb' = pos.rgb
    /\ sleep_us' = pos.sleep_us
    /\ refreshes' = pos.refreshes

\* rgb.rs:176  get_rgb_levels().await completes (main.rs:98-101)
RgbGetLevels ==
    /\ r_pc = "get_rgb_levels"
    /\ rgb_levels_mutex = "free"
    /\ levels' = RefreshLevels(levels, RGB_LEVELS)
    /\ rgb_levels_mutex' = GuardDrop("rgb")
    /\ refreshes' = refreshes + 1
    /\ r_pc' = "get_frame_rate"
    /\ high_us' = [i \in Leds |-> 0]
    /\ frame_us' = 0
    /\ frame_done' = FALSE
    /\ rgb_log' = <<>>
    /\ UNCHANGED <<RGB_LEVELS, FRAME_RATE, frame_rate_mutex, led, tick_time,
                   current_frame_rate, rgb, sleep_us, controller, history, scenario>>

\* rgb.rs:178-185  get_frame_rate().await completes (main.rs:149-152); the
\* timing is recomputed on a change and step(0) runs to its first Timer
RgbGetFrameRate ==
    /\ r_pc = "get_frame_rate"
    /\ frame_rate_mutex = "free"
    /\ frame_rate_mutex' = GuardDrop("rgb")
    /\ LET new_frame_rate == FRAME_RATE
           tick == IF new_frame_rate # current_frame_rate
                   THEN frame_tick_time(new_frame_rate)
                   ELSE tick_time
       IN  /\ current_frame_rate' = new_frame_rate
           /\ tick_time' = tick
           /\ Goto(StepEnter(0, rgb, tick))
           /\ rgb_log' = IF new_frame_rate # current_frame_rate
                         THEN <<FrameRateUpdated(new_frame_rate)>>
                         ELSE <<>>
    /\ UNCHANGED <<RGB_LEVELS, FRAME_RATE, rgb_levels_mutex, levels,
                   high_us, frame_us, frame_done, controller, history, scenario>>

\* rgb.rs:148-155  the on-time Timer fires: set_low, then the off phase
RgbOnWake ==
    /\ r_pc = "on_sleep"
    /\ Goto(StepOff(led, set_low(rgb, led), tick_time))
    /\ high_us' = HighAfterSleep
    /\ frame_us' = frame_us + sleep_us
    /\ frame_done' = ~InStep(r_pc')
    /\ rgb_log' = <<>>
    /\ UNCHANGED <<shared, levels, tick_time, current_frame_rate, controller,
                   history, scenario>>

\* rgb.rs:154-156, 184  the off-time Timer fires: step(led) returns and the
\* next channel (or the next frame) begins
RgbOffWake ==
    /\ r_pc = "off_sleep"
    /\ Goto(StepEnter(led + 1, rgb, tick_time))
    /\ high_us' = HighAfterSleep
    /\ frame_us' = frame_us + sleep_us
    /\ frame_done' = ~InStep(r_pc')
    /\ rgb_log' = <<>>
    /\ UNCHANGED <<shared, levels, tick_time, current_frame_rate, controller,
                   history, scenario>>

----------------------------------------------------------------------------
\* Controller (ui.rs)

Buttons == BOOLEAN \X BOOLEAN

set_rgb_levels_BlueOnly(old, new) == [old EXCEPT ![2] = new[2]]

\* ui.rs:193-196, 242-245  set_rgb_levels(|rgb| *rgb = self.state.levels)
\* (main.rs:129-135): the whole array is assigned under the guard
set_rgb_levels(old, new) == new

AfterMeasureAlways(chg) == "set_rgb_levels"

AfterMeasureNever(chg) == "sleep"

\* ui.rs:239-252  `if changed { show; set_rgb_levels(..).await; .. }` else
\* straight to Timer::after_millis(50).await
AfterMeasure(chg) == IF chg THEN "set_rgb_levels" ELSE "sleep"

\* the UiState field that parameter p edits (ui.rs:211-237)
UiField(p, lv, fr) == IF p = "FrameRate" THEN fr ELSE lv[idx(p)]

LoopTopLinesNoShow(p) ==
    IF p # current_parameter THEN <<NowControlling(p)>> ELSE <<>>

\* ui.rs:201-205  lines printed at the top of the loop when the parameter
\* read from the buttons differs from current_parameter
LoopTopLines(p) ==
    IF p # current_parameter
    THEN <<NowControlling(p), ShowBlock(state_levels, state_frame_rate)>>
    ELSE <<>>

\* ui.rs:199-207  top of the loop: the buttons are read, current_parameter
\* follows, and the Controller awaits knob.measure().  The locals of the
\* iteration are not yet assigned; they are given fixed values here.
LoopTop(a, b) ==
    LET p == read_button_state(a, b)
    IN  /\ a_pressed' = a
        /\ b_pressed' = b
        /\ parameter' = p
        /\ current_parameter' = IF p # current_parameter THEN p ELSE current_parameter
        /\ raw_knob_value' = 0
        /\ mapped_value' = 0
        /\ changed' = FALSE
        /\ u_pc' = "measure"

\* ui.rs:192  the first knob.measure().await completes with ADC sample raw
\* (knob.rs:60-69)
UiSeedMeasureOn(raw) ==
    /\ u_pc = "seed_measure"
    /\ state_levels' = [state_levels EXCEPT ![2] = Measure(raw)]
    /\ u_pc' = "seed_publish"
    /\ ui_log' = <<>>
    /\ UNCHANGED <<shared, renderer, state_frame_rate, current_parameter,
                   parameter, raw_knob_value, mapped_value, changed,
                   a_pressed, b_pressed, history>>

UiSeedMeasure ==
    /\ \E raw \in RawSamples : UiSeedMeasureOn(raw)
    /\ UNCHANGED scenario

\* ui.rs:193-207  the seed's set_rgb_levels(..).await completes, show(), and
\* the first iteration runs to knob.measure().await with buttons a, b
UiSeedPublishOn(a, b) ==
    /\ u_pc = "seed_publish"
    /\ rgb_levels_mutex = "free"
    /\ RGB_LEVELS' = set_rgb_levels(RGB_LEVELS, state_levels)
    /\ last_set' = state_levels
    /\ rgb_levels_mutex' = GuardDrop("ui")
    /\ LoopTop(a, b)
    /\ ui_log' = <<ShowBlock(state_levels, state_frame_rate)>>
                    \o LoopTopLines(read_button_state(a, b))
    /\ UNCHANGED <<FRAME_RATE, frame_rate_mutex, renderer, state_levels, state_frame_rate>>

UiSeedPublish ==
    /\ \E ab \in Buttons : UiSeedPublishOn(ab[1], ab[2])
    /\ UNCHANGED scenario

\* ui.rs:207-252  knob.measure().await completes with ADC sample raw: the
\* value is mapped and compared with the cached field; on a change the cache
\* is updated and shown
UiMeasureOn(raw) ==
    /\ u_pc = "measure"
    /\ LET q == Measure(raw)
           v == map_knob_value(q, parameter)
           chg == v # UiField(parameter, state_levels, state_frame_rate)
       IN  /\ raw_knob_value' = q
           /\ mapped_value' = v
           /\ changed' = chg
           /\ state_frame_rate' =
                 IF parameter = "FrameRate" /\ chg THEN v ELSE state_frame_rate
           /\ state_levels' =
                 IF parameter # "FrameRate" /\ chg
                 THEN [state_levels EXCEPT ![idx(parameter)] = v]
                 ELSE state_levels
           /\ u_pc' = AfterMeasure(chg)
           /\ ui_log' = IF chg THEN <<ShowBlock(state_levels', state_frame_rate')>>
                        ELSE <<>>
    /\ UNCHANGED <<shared, renderer, current_parameter, parameter,
                   a_pressed, b_pressed, history>>

UiMeasure ==
    /\ \E raw \in RawSamples : UiMeasureOn(raw)
    /\ UNCHANGED scenario

\* ui.rs:242-247  set_rgb_levels(..).await completes
UiSetRgbLevels ==
    /\ u_pc = "set_rgb_levels"
    /\ rgb_levels_mutex = "free"
    /\ RGB_LEVELS' = set_rgb_levels(RGB_LEVELS, state_levels)
    /\ last_set' = state_levels
    /\ rgb_levels_mutex' = GuardDrop("ui")
    /\ u_pc' = IF parameter = "FrameRate" THEN "set_frame_rate" ELSE "sleep"
    /\ ui_log' = <<>>
    /\ UNCHANGED <<FRAME_RATE, frame_rate_mutex, renderer, state_levels,
                   state_frame_rate, current_parameter, parameter,
                   raw_knob_value, mapped_value, changed,
                   a_pressed, b_pressed, scenario>>

\* ui.rs:248-252  set_frame_rate(|rate| *rate = self.state.frame_rate).await
\* completes (main.rs:171-177)
UiSetFrameRate ==
    /\ u_pc = "set_frame_rate"
    /\ frame_rate_mutex = "free"
    /\ FRAME_RATE' = state_frame_rate
    /\ frame_rate_mutex' = GuardDrop("ui")
    /\ u_pc' = "sleep"
    /\ ui_log' = <<FrameRateChanged(state_frame_rate)>>
    /\ UNCHANGED <<RGB_LEVELS, rgb_levels_mutex, renderer, state_levels,
                   state_frame_rate, current_parameter, parameter,
                   raw_knob_value, mapped_value, changed,
                   a_pressed, b_pressed, history, scenario>>

\* ui.rs:252, 198-207  Timer::after_millis(50).await completes; the next
\* iteration runs to knob.measure().await with buttons a, b
UiWakeOn(a, b) ==
    /\ u_pc = "sleep"
    /\ LoopTop(a, b)
    /\ ui_log' = LoopTopLines(read_button_state(a, b))
    /\ UNCHANGED <<shared, renderer, state_levels, state_frame_rate, history>>

UiWake ==
    /\ \E ab \in Buttons : UiWakeOn(ab[1], ab[2])
    /\ UNCHANGED scenario

----------------------------------------------------------------------------
\* main.rs:238  join(rgb.run(), ui.run()): the two tasks interleave at awaits
Next ==
    \/ RgbGetLevels
    \/ RgbGetFrameRate
    \/ RgbOnWake
    \/ RgbOffWake
    \/ UiSeedMeasure
    \/ UiSeedPublish
    \/ UiMeasure
    \/ UiSetRgbLevels
    \/ UiSetFrameRate
    \/ UiWake

Spec == Init /\ [][Next]_vars

----------------------------------------------------------------------------
\* Positions

\* the Renderer is inside a frame: in step(led), at one of its two Timers
InFrame == r_pc \in {"on_sleep", "off_sleep"}

\* the Renderer is at the top of its loop, before step(0)
AtFrameTop == r_pc \in {"get_rgb_levels", "get_frame_rate"}

AllLow == \A i \in Leds : ~rgb[i]

----------------------------------------------------------------------------
\* C1: in every reachable state each component of the shared RGB_LEVELS lies
\* in 0..LEVELS-1, whatever the knob samples, buttons and interleaving.
C1_LevelsInRange == \A i \in Leds : 0 <= RGB_LEVELS[i] /\ RGB_LEVELS[i] < LEVELS

\* a publish made from a top-of-range sample: red was edited to LEVELS-1
C1_Witness ==
    /\ u_pc = "sleep"
    /\ parameter = "Red"
    /\ changed
    /\ raw_knob_value = LEVELS - 1
    /\ RGB_LEVELS[0] = LEVELS - 1
    /\ RGB_LEVELS[1] = 0

\* C2: the shared FRAME_RATE always lies in 10..160; the Controller never
\* publishes 0, so neither the published rate nor the rate the Renderer
\* divides by makes the divisor of frame_tick_time zero.
C2_FrameRateInRange ==
    /\ 10 <= FRAME_RATE /\ FRAME_RATE <= 160
    /\ 3 * FRAME_RATE * LEVELS # 0
    /\ 3 * current_frame_rate * LEVELS # 0

\* the lowest rate was published and the Renderer has divided by it
C2_Witness ==
    /\ FRAME_RATE = 10
    /\ current_frame_rate = 10
    /\ tick_time = 2083
    /\ InFrame

\* C3: at most one of the three LED pins is high in any reachable state.
C3_AtMostOnePinHigh == Cardinality({i \in Leds : rgb[i]}) <= 1

\* blue is high after red and green were each lit and switched off, with a
\* Controller publish pending in between the Renderer's sleeps
C3_Witness ==
    /\ r_pc = "on_sleep" /\ led = 2
    /\ rgb[2] /\ ~rgb[0] /\ ~rgb[1]
    /\ levels[0] > 0 /\ levels[1] > 0
    /\ u_pc = "set_rgb_levels"

\* C4: a task suspended in a sleep (Renderer: on/off Timer; Controller: the
\* 50 ms Timer or an ADC sample) holds neither mutex.
C4_NoLockAcrossSleep ==
    /\ InFrame => rgb_levels_mutex # "rgb" /\ frame_rate_mutex # "rgb"
    /\ u_pc \in {"sleep", "measure", "seed_measure"} =>
          rgb_levels_mutex # "ui" /\ frame_rate_mutex # "ui"

\* both tasks asleep after each has been through both mutexes
C4_Witness ==
    /\ r_pc = "on_sleep"
    /\ refreshes = 1
    /\ u_pc = "sleep"
    /\ parameter = "FrameRate"
    /\ changed
    /\ FRAME_RATE = mapped_value
    /\ current_frame_rate = mapped_value

\* C5: no torn publish.  Whenever the Renderer's cache changes it becomes, in
\* all three components, the array RGB_LEVELS holds at that instant, and
\* whenever RGB_LEVELS changes it becomes the whole UiState.levels of one
\* Controller publish.
C5_NoTornPublish ==
    [][ /\ levels' # levels => levels' = RGB_LEVELS
        /\ RGB_LEVELS' # RGB_LEVELS => RGB_LEVELS' = state_levels ]_vars

\* the Renderer renders one whole publish while RGB_LEVELS has moved on in
\* two components: a mix of the two would differ from both
C5_Witness ==
    /\ InFrame
    /\ levels[0] = LEVELS - 1
    /\ levels[0] # RGB_LEVELS[0]
    /\ levels[2] # RGB_LEVELS[2]

\* C6: publish visibility.  The read at the top of a frame takes the levels of
\* the latest completed publish (the value RGB_LEVELS then holds); a publish
\* that completes later leaves the frame's levels alone and is picked up by
\* the next frame's read.
C6_PublishVisibility ==
    [][ /\ (r_pc = "get_rgb_levels" /\ r_pc' # "get_rgb_levels") => levels' = RGB_LEVELS
        /\ r_pc # "get_rgb_levels" => levels' = levels ]_vars

\* a frame rendered with an observed publish while a later publish waits for
\* the next frame
C6_Witness ==
    /\ InFrame
    /\ levels # [i \in Leds |-> 0]
    /\ levels # RGB_LEVELS
    /\ u_pc = "sleep"

\* C7: the Renderer's cache is refreshed exactly once per frame, at the top,
\* with all pins low; levels, tick_time and current_frame_rate do not change
\* inside a frame, so a frame rate published mid-frame waits for the boundary.
C7_RefreshOncePerFrame ==
    /\ [](InFrame => refreshes = 1)
    /\ [](AtFrameTop => AllLow)
    /\ [][ (levels' # levels \/ tick_time' # tick_time
               \/ current_frame_rate' # current_frame_rate)
           => AtFrameTop /\ AllLow ]_vars

\* in the last channel of a frame a new frame rate is already published and
\* the Renderer still runs on the old timing
C7_Witness ==
    /\ InFrame /\ led = 2
    /\ refreshes = 1
    /\ FRAME_RATE # current_frame_rate
    /\ tick_time = frame_tick_time(current_frame_rate)
    /\ tick_time # frame_tick_time(FRAME_RATE)

\* every write of the Controller's loop happens after a sample whose mapped
\* value differs from the cached field being edited
LoopWritesOnlyOnChange ==
    /\ (u_pc = "measure" /\ u_pc' # u_pc) =>
          (changed' <=> mapped_value' # UiField(parameter, state_levels, state_frame_rate))
    /\ (u_pc \in {"set_rgb_levels", "set_frame_rate"} /\ u_pc' # u_pc) => changed
    /\ (RGB_LEVELS' # RGB_LEVELS \/ FRAME_RATE' # FRAME_RATE) =>
          u_pc \in {"seed_publish", "set_rgb_levels", "set_frame_rate"}

\* C8 (as claimed): every Controller write to RGB_LEVELS or FRAME_RATE, the
\* seed's publish included, happens only after a sample whose mapped value
\* differs from the cached field being edited (for the seed: blue, cached as
\* LEVELS-1 by UiState::default).
C8_Original ==
    [][ /\ LoopWritesOnlyOnChange
        /\ (u_pc = "seed_publish" /\ u_pc' # u_pc) => state_levels[2] # LEVELS - 1 ]_vars

\* C8 (amended): every write the Controller makes inside its loop happens only
\* after a sample whose mapped value differs from the cached field being
\* edited; the one other write, the seed's publish, is unconditional.
C8_LoopPublishOnlyOnChange == [][LoopWritesOnlyOnChange]_vars

\* a frame-rate edit whose two writes have both been made
C8_Witness ==
    /\ u_pc = "sleep"
    /\ changed
    /\ parameter = "FrameRate"
    /\ mapped_value # 100
    /\ FRAME_RATE = mapped_value

\* C9 (as claimed): knob at 0 and no button: when the seed completes the
\* shared RGB_LEVELS is [0, 0, 0].
C9_Original ==
    [][ (u_pc = "seed_publish" /\ u_pc' = "measure"
            /\ state_levels[2] = 0 /\ parameter' = "FrameRate")
        => RGB_LEVELS' = [i \in Leds |-> 0] ]_vars

\* C9 (amended): knob at 0 and no button: when the seed completes the shared
\* RGB_LEVELS is [LEVELS-1, LEVELS-1, 0]: the seed publishes the whole
\* UiState.levels, whose red and green are UiState::default's LEVELS-1.
C9_BootPublishesUiDefaults ==
    [][ (u_pc = "seed_publish" /\ u_pc' = "measure"
            /\ state_levels[2] = 0 /\ parameter' = "FrameRate")
        => RGB_LEVELS' = [i \in Leds |-> IF i = 2 THEN 0 ELSE LEVELS - 1] ]_vars

\* the seed has completed with the knob at 0 and no button, and the Renderer
\* has not yet read the publish
C9_Witness ==
    /\ u_pc = "measure"
    /\ parameter = "FrameRate" /\ current_parameter = "FrameRate"
    /\ state_frame_rate = 100
    /\ state_levels = [i \in Leds |-> IF i = 2 THEN 0 ELSE LEVELS - 1]
    /\ RGB_LEVELS = state_levels
    /\ r_pc = "get_rgb_levels" /\ refreshes = 0
    /\ levels = [i \in Leds |-> 0]

\* C10: when an iteration that read parameter p and knob value q reaches its
\* 50 ms sleep, SharedState holds the mapped value in p's field:
\* FRAME_RATE = 10 + 10*q for FrameRate, RGB_LEVELS[idx(p)] = q otherwise.
C10_BoundedResponse ==
    u_pc = "sleep" =>
        IF parameter = "FrameRate"
        THEN FRAME_RATE = 10 + 10 * raw_knob_value
        ELSE RGB_LEVELS[idx(parameter)] = raw_knob_value

\* both buttons held, knob at 8: red is 8 in SharedState at the sleep
C10_Witness ==
    /\ u_pc = "sleep"
    /\ parameter = "Red"
    /\ raw_knob_value = 8
    /\ changed
    /\ RGB_LEVELS[0] = 8

----------------------------------------------------------------------------
\* the Controller is inside an iteration of its loop
InTick == u_pc \in {"measure", "set_rgb_levels", "set_frame_rate", "sleep"}

\* C11: across one iteration of Ui::run, of the four shared scalars only the
\* one selected by the iteration's button reading can change; no step taken
\* while the iteration is under way changes any of the other three.
C11_OneParameterPerTick ==
    [][ InTick =>
          /\ parameter # "Red" => RGB_LEVELS'[0] = RGB_LEVELS[0]
          /\ parameter # "Green" => RGB_LEVELS'[1] = RGB_LEVELS[1]
          /\ parameter # "Blue" => RGB_LEVELS'[2] = RGB_LEVELS[2]
          /\ parameter # "FrameRate" => FRAME_RATE' = FRAME_RATE ]_vars

\* a tick that edited green to 8 and left red, blue and the frame rate alone
C11_Witness ==
    /\ u_pc = "sleep"
    /\ parameter = "Green"
    /\ changed
    /\ RGB_LEVELS[1] = 8
    /\ RGB_LEVELS[0] = LEVELS - 1
    /\ RGB_LEVELS[2] = 0
    /\ FRAME_RATE = 100

----------------------------------------------------------------------------
\* C12: within a frame the channels are driven strictly in order 0, 1, 2.
\* The frame starts with channel 0; the Renderer leaves channel c only from
\* c's off-sleep, which follows c's on-sleep (if any), and goes to channel
\* c+1; after channel 2's off-sleep it is back at the read of SharedState;
\* a pin goes high only as its own channel's slice begins.
C12_ChannelOrder ==
    [][ /\ led' # led =>
              /\ r_pc = "off_sleep"
              /\ \/ led < 2 /\ led' = led + 1 /\ InStep(r_pc')
                 \/ led = 2 /\ led' = 0 /\ r_pc' = "get_rgb_levels"
        /\ (r_pc = "on_sleep" /\ r_pc' # r_pc) => r_pc' = "off_sleep" /\ led' = led
        /\ (r_pc' = "get_rgb_levels" /\ r_pc # r_pc') => r_pc = "off_sleep" /\ led = 2
        /\ (r_pc = "get_frame_rate" /\ r_pc' # r_pc) => led' = 0 /\ InStep(r_pc')
        /\ \A c \in Leds :
              (rgb'[c] /\ ~rgb[c]) =>
                 /\ led' = c /\ r_pc' = "on_sleep"
                 /\ r_pc \in {"get_frame_rate", "off_sleep"} ]_vars

\* channel 2 is lit after the full slices of channels 0 and 1
C12_Witness ==
    /\ r_pc = "on_sleep" /\ led = 2
    /\ high_us[0] > 0 /\ high_us[1] > 0
    /\ frame_us = 2 * LEVELS * tick_time

----------------------------------------------------------------------------
\* The Renderer alone, over every cached level 0..LEVELS and every frame rate
\* the knob can select: SharedState holds an arbitrary such value and the
\* Controller does not run.

\* ui.rs:159  the frame rates 10 + 10*q, q in 0..LEVELS-1
KnobFrameRates == {map_knob_value(q, "FrameRate") : q \in 0..(LEVELS - 1)}

FrameInit ==
    /\ \E lv \in [Leds -> 0..LEVELS] : \E fr \in KnobFrameRates : SharedInit(lv, fr)
    /\ RendererInit(100)
    /\ ControllerInit
    /\ sweep = 0
    /\ adc_buf = 0

FrameNext ==
    \/ RgbGetLevels
    \/ RgbGetFrameRate
    \/ RgbOnWake
    \/ RgbOffWake

FrameSpec == FrameInit /\ [][FrameNext]_vars

\* C13: for every cached level in 0..LEVELS, when the frame's three steps
\* have returned pin c has been high for exactly levels[c] * tick_time
\* microseconds of sleep; with levels[c] = 0 pin c is never high during the
\* frame and its off-sleep is the full slice LEVELS * tick_time.
C13_HighTime ==
    /\ frame_done => \A c \in Leds : high_us[c] = levels[c] * tick_time
    /\ \A c \in Leds : (levels[c] = 0 /\ (InStep(r_pc) \/ frame_done)) => ~rgb[c] /\ high_us[c] = 0
    /\ (r_pc = "off_sleep" /\ levels[led] = 0) => sleep_us = LEVELS * tick_time

\* a finished frame at 10 fps with red at LEVELS, green at 0 and blue at 8
C13_Witness ==
    /\ frame_done
    /\ tick_time = 2083
    /\ levels[0] = LEVELS /\ levels[1] = 0 /\ levels[2] = 8
    /\ high_us[0] = LEVELS * 2083 /\ high_us[1] = 0 /\ high_us[2] = 8 * 2083

\* C14: the frame time does not depend on brightness: for all levels in
\* 0..LEVELS-1 the sleeps of one frame add up to exactly 3 * LEVELS * tick_time
\* microseconds, each channel's slice being LEVELS * tick_time.
C14_FrameTime ==
    (\A c \in Leds : levels[c] <= LEVELS - 1) =>
        /\ frame_done => frame_us = 3 * LEVELS * tick_time
        /\ r_pc = "on_sleep" => frame_us = led * LEVELS * tick_time
        /\ r_pc = "off_sleep" => frame_us + sleep_us = (led + 1) * LEVELS * tick_time

\* a finished frame at 160 fps with levels 15, 0 and 8
C14_Witness ==
    /\ frame_done
    /\ tick_time = 130
    /\ levels[0] = LEVELS - 1 /\ levels[1] = 0 /\ levels[2] = 8
    /\ frame_us = 3 * LEVELS * 130

----------------------------------------------------------------------------
\* The Renderer alone, over every frame rate from 10 to 160.

\* ui.rs:159  every integer rate between the lowest and the highest the knob
\* can select
AllFrameRates == map_knob_value(0, "FrameRate")..map_knob_value(LEVELS - 1, "FrameRate")

TickInit ==
    /\ \E lv \in [Leds -> {0, LEVELS - 1}] : \E fr \in AllFrameRates : SharedInit(lv, fr)
    /\ RendererInit(100)
    /\ ControllerInit
    /\ sweep = 0
    /\ adc_buf = 0

TickSpec == TickInit /\ [][FrameNext]_vars

\* C15 (as claimed): for every frame rate in 10..160 the frame time
\* frame_tick_time(frame_rate) * 3 * LEVELS is within 1 microsecond of
\* 1_000_000 / frame_rate (compared after multiplying through by frame_rate).
C15_Original ==
    InStep(r_pc) =>
        /\ tick_time * 3 * LEVELS * current_frame_rate - 1000000 <= current_frame_rate
        /\ 1000000 - tick_time * 3 * LEVELS * current_frame_rate <= current_frame_rate

\* C15 (amended): for every frame rate in 10..160 the frame time
\* frame_tick_time(frame_rate) * 3 * LEVELS is at most 1_000_000 / frame_rate
\* and falls short of it by less than 3 * LEVELS = 48 microseconds, the
\* integer division truncating the tick.
C15_FrameTimeTruncation ==
    InStep(r_pc) =>
        /\ current_frame_rate = FRAME_RATE
        /\ tick_time * 3 * LEVELS * current_frame_rate <= 1000000
        /\ 1000000 - tick_time * 3 * LEVELS * current_frame_rate
              < 3 * LEVELS * current_frame_rate

\* 22 fps: the tick is 946 us, the frame 45408 us, 46.5 us short of 1/22 s
C15_Witness ==
    /\ InStep(r_pc)
    /\ current_frame_rate = 22
    /\ tick_time = 946
    /\ 1000000 - tick_time * 3 * LEVELS * current_frame_rate > 46 * current_frame_rate

----------------------------------------------------------------------------
\* the lines a log holds after the show-block of the seed (ui.rs:197), which
\* is printed in the same segment as the first iteration's loop top
AfterSeedShow(log) ==
    IF log # <<>> /\ log[1].kind = "show" THEN Tail(log) ELSE log

\* the loop top of an iteration prints one "Now controlling" line and one
\* show-block exactly when the parameter read differs from current_parameter,
\* and the segments after the knob sample print no "Now controlling" line
SwitchLines ==
    /\ (u_pc \in {"sleep", "seed_publish"} /\ u_pc' = "measure") =>
          LET n == IF parameter' # current_parameter THEN 1 ELSE 0
          IN  /\ Count(AfterSeedShow(ui_log'), "now_controlling") = n
              /\ Count(AfterSeedShow(ui_log'), "show") = n
    /\ (InTick /\ u_pc' # u_pc /\ u_pc' # "measure") =>
          Count(ui_log', "now_controlling") = 0
    /\ (u_pc \in {"set_rgb_levels", "set_frame_rate"} /\ u_pc' # u_pc /\ u_pc' # "measure") =>
          Count(ui_log', "show") = 0

\* the iteration now at its knob sample switched the parameter at its top
SwitchedTick == u_pc = "measure" /\ Count(AfterSeedShow(ui_log), "now_controlling") = 1

\* C16 (as claimed): a tick whose parameter differs from current_parameter
\* prints exactly one "Now controlling" line and exactly one show-block: the
\* rest of the tick prints no further show-block.
C16_Original ==
    [][ /\ SwitchLines
        /\ (SwitchedTick /\ u_pc' # u_pc) => Count(ui_log', "show") = 0 ]_vars

\* C16 (amended): a tick whose parameter differs from current_parameter prints
\* exactly one "Now controlling" line, and one show-block at the switch; it
\* prints a second show-block exactly when the mapped knob value of the tick
\* differs from the cached field (as in the Blue -> FrameRate example, where
\* frame_rate changes in the same tick).
C16_SwitchLogging ==
    [][ /\ SwitchLines
        /\ (SwitchedTick /\ u_pc' # u_pc) =>
              Count(ui_log', "show") = (IF changed' THEN 1 ELSE 0) ]_vars

\* blue was edited to 8 and the buttons were released: the tick switched to
\* FrameRate, printed its two lines and awaits the knob
C16_Witness ==
    /\ u_pc = "measure"
    /\ parameter = "FrameRate"
    /\ Len(ui_log) = 2
    /\ ui_log[1] = NowControlling("FrameRate")
    /\ ui_log[2].kind = "show"
    /\ ui_log[2].levels[2] = 8
    /\ state_frame_rate = 100

----------------------------------------------------------------------------
\* The frame-rate sweep: no button is held and the knob is turned one
\* quantization step further before every sample of the loop, from 0 up to
\* LEVELS - 1, where it stays.  `sweep` counts the samples the loop has taken.

\* knob.rs:63-67  an ADC sample that Knob::measure quantizes to q
RawOfQ(q) == ((q + 2) * 10000) \div (LEVELS + 2) + 1

SweepQ == IF sweep < LEVELS THEN sweep ELSE LEVELS - 1

\* ui.rs:192  the seed sample, taken with the knob at its first position
SweepSeedMeasure == UiSeedMeasureOn(RawOfQ(0)) /\ UNCHANGED scenario

\* ui.rs:193-207  the seed publish and the first loop top, no button held
SweepSeedPublish == UiSeedPublishOn(FALSE, FALSE) /\ UNCHANGED scenario

\* ui.rs:209-237  the sample of one iteration, at the next knob position
SweepMeasure ==
    /\ UiMeasureOn(RawOfQ(SweepQ))
    /\ sweep' = IF sweep < LEVELS THEN sweep + 1 ELSE sweep
    /\ UNCHANGED adc_buf

\* ui.rs:252, 199-207  the tick timer expires, no button held
SweepWake == UiWakeOn(FALSE, FALSE) /\ UNCHANGED scenario

SweepNext ==
    \/ RgbGetLevels
    \/ RgbGetFrameRate
    \/ RgbOnWake
    \/ RgbOffWake
    \/ SweepSeedMeasure
    \/ SweepSeedPublish
    \/ SweepMeasure
    \/ UiSetRgbLevels
    \/ UiSetFrameRate
    \/ SweepWake

SweepSpec == Init /\ [][SweepNext]_vars

\* the Controller publishes 10, 20, ..., 160 in the order of the sweep, one
\* value per tick
SweepPublishes ==
    /\ FRAME_RATE' # FRAME_RATE =>
          /\ sweep \in 1..LEVELS
          /\ FRAME_RATE' = map_knob_value(sweep - 1, "FrameRate")
    /\ (u_pc' = "sleep" /\ u_pc # "sleep") =>
          FRAME_RATE' = map_knob_value(sweep - 1, "FrameRate")

\* the Renderer logs a frame rate only at the read of a frame top that finds
\* FRAME_RATE different from its cached rate, and logs the value it read
SweepPickups ==
    /\ current_frame_rate' # current_frame_rate =>
          /\ r_pc = "get_frame_rate"
          /\ current_frame_rate' = FRAME_RATE
    /\ (r_pc = "get_frame_rate" /\ r_pc' # r_pc) =>
          rgb_log' = IF FRAME_RATE # current_frame_rate
                     THEN <<FrameRateUpdated(FRAME_RATE)>>
                     ELSE <<>>
    /\ (r_pc # "get_frame_rate" /\ r_pc' # r_pc) =>
          Count(rgb_log', "frame_rate_updated") = 0

\* C17 (as claimed): in the sweep the Controller publishes 10, 20, ..., 160
\* in order and the Renderer picks up and logs each published value: no
\* published frame rate is overwritten before the Renderer has read it.
C17_Original ==
    [][ /\ SweepPublishes
        /\ SweepPickups
        /\ FRAME_RATE' # FRAME_RATE => current_frame_rate = FRAME_RATE ]_vars

\* C17 (amended): in the sweep the Controller publishes 10, 20, ..., 160 in
\* order, one per tick; the Renderer reads the frame rate once per frame and
\* logs the value it reads when it differs from its cached rate, so the values
\* it logs are published values in publishing order, and a value overwritten
\* before the next frame top is not logged.
C17_SweepPublishedInOrder ==
    [][ SweepPublishes /\ SweepPickups ]_vars

\* the sweep is over and the Renderer has just logged the last value
C17_Witness ==
    /\ sweep = LEVELS
    /\ FRAME_RATE = map_knob_value(LEVELS - 1, "FrameRate")
    /\ rgb_log = <<FrameRateUpdated(FRAME_RATE)>>
    /\ current_frame_rate = FRAME_RATE

----------------------------------------------------------------------------
\* C18: the button encoding is the four-row table (no button -> FrameRate,
\* A only -> Blue, B only -> Green, both -> Red), and throughout a tick, up
\* to and including its sleep, current_parameter is the table's value for the
\* buttons read at the start of that tick.
C18_ButtonTable ==
    InTick =>
        /\ (~a_pressed /\ ~b_pressed) => current_parameter = "FrameRate"
        /\ (a_pressed /\ ~b_pressed)  => current_parameter = "Blue"
        /\ (~a_pressed /\ b_pressed)  => current_parameter = "Green"
        /\ (a_pressed /\ b_pressed)   => current_parameter = "Red"
        /\ parameter = current_parameter

\* a tick that read A only has edited blue and is asleep
C18_Witness ==
    /\ u_pc = "sleep"
    /\ a_pressed /\ ~b_pressed
    /\ current_parameter = "Blue"
    /\ changed
    /\ state_levels[2] = LEVELS - 1

----------------------------------------------------------------------------
\* C19: a get_rgb_levels returns exactly the array of the latest
\* set_rgb_levels, whatever Renderer steps ran between the two calls: the
\* Renderer's steps leave RGB_LEVELS alone and its read copies all of it.
C19_RoundTrip ==
    [][ /\ (r_pc = "get_rgb_levels" /\ r_pc' # r_pc) => levels' = last_set
        /\ (r_pc' # r_pc) => RGB_LEVELS' = RGB_LEVELS ]_vars

\* red was edited to 8 after blue was seeded 8, with Renderer steps in
\* between, and the Renderer has just read the array back
C19_Witness ==
    /\ r_pc = "get_frame_rate"
    /\ u_pc = "sleep"
    /\ last_set = [i \in Leds |-> IF i = 1 THEN LEVELS - 1 ELSE 8]
    /\ levels = last_set
    /\ refreshes = 1

----------------------------------------------------------------------------
\* The knob alone: every sample the ADC can deliver is quantized once.

\* knob.rs:61-62  the samples of the ADC buffer, signed 16-bit
AdcSamples == -32768..32767

KnobInit ==
    /\ SharedInit([i \in Leds |-> 0], 100)
    /\ RendererInit(100)
    /\ ControllerInit
    /\ sweep = 0
    /\ adc_buf \in AdcSamples

\* knob.rs:60-69  Knob::measure on the sample in the buffer
KnobMeasure == UiSeedMeasureOn(adc_buf) /\ UNCHANGED scenario

KnobSpec == KnobInit /\ [][KnobMeasure]_vars

\* C20: for every raw ADC sample, clamped to [0, 0x7FFF], the quantization
\* floor(clamp((LEVELS + 2) * raw / 10000 - 2, 0, LEVELS - 1)) is a level in
\* 0 .. LEVELS - 1.
C20_KnobInRange ==
    u_pc = "seed_publish" =>
        LET k == state_levels[2]
            r == IF adc_buf < 0 THEN 0 ELSE IF adc_buf > 32767 THEN 32767 ELSE adc_buf
            y == (LEVELS + 2) * r - 2 * 10000
        IN  /\ k \in 0..(LEVELS - 1)
            /\ y < 0 => k = 0
            /\ y >= (LEVELS - 1) * 10000 => k = LEVELS - 1
            /\ (y >= 0 /\ y < (LEVELS - 1) * 10000) =>
                  (k * 10000 <= y /\ y < (k + 1) * 10000)

\* the largest sample is quantized to the top level
C20_Witness ==
    /\ u_pc = "seed_publish"
    /\ adc_buf = 32767
    /\ state_levels[2] = LEVELS - 1

----------------------------------------------------------------------------
\* The two tasks under the executor.  main.rs:238 joins the two futures on
\* one cooperative executor: a task whose await has completed (its timer
\* expired, its ADC sample arrived, its mutex is free) is polled again, so
\* each task's next step, once continuously enabled, is eventually taken.

\* ui.rs:191-254  the steps of Ui::run
ControllerNext ==
    \/ UiSeedMeasure
    \/ UiSeedPublish
    \/ UiMeasure
    \/ UiSetRgbLevels
    \/ UiSetFrameRate
    \/ UiWake

FairSpec == Spec /\ WF_vars(FrameNext) /\ WF_vars(ControllerNext)

\* rgb.rs:174-188, ui.rs:199-253  the positions inside the two endless loops
RendererPositions == {"get_rgb_levels", "get_frame_rate", "on_sleep", "off_sleep"}

ControllerPositions ==
    {"seed_measure", "seed_publish", "measure", "set_rgb_levels", "set_frame_rate", "sleep"}

\* main.rs:238-240  join returns once both futures have returned: each task
\* has left its loop
Joined == r_pc \notin RendererPositions /\ u_pc \notin ControllerPositions

\* C21: the two tasks never complete and never block each other forever: the
\* Renderer starts a new frame infinitely often, the Controller starts a new
\* tick infinitely often, neither task ever leaves its loop, and the state
\* after join (the panic of main) is never reached.
C21_TasksRunForever ==
    /\ []<><<RgbGetLevels>>_vars
    /\ []<><<UiWake>>_vars
    /\ [](r_pc \in RendererPositions /\ u_pc \in ControllerPositions /\ ~Joined)

\* the Renderer is at the top of a later frame while the Controller sleeps
\* at the end of a tick that published a frame rate
C21_Witness ==
    /\ r_pc = "get_rgb_levels"
    /\ current_frame_rate = map_knob_value(LEVELS - 1, "FrameRate")
    /\ u_pc = "sleep"
    /\ FRAME_RATE = map_knob_value(0, "FrameRate")
    /\ ui_log = <<FrameRateChanged(FRAME_RATE)>>

----------------------------------------------------------------------------
\* C22 (as documented on Rgb::step): with intensity LEVELS - 1 = 15 the LED
\* stays on for the full cycle of its step: the step has no off phase, its
\* off-phase delay is skipped, and the pin has been high for the whole slice
\* LEVELS * tick_time when the frame's steps have returned.
C22_Original ==
    \A c \in Leds :
        levels[c] = LEVELS - 1 =>
            /\ ~(r_pc = "off_sleep" /\ led = c)
            /\ frame_done => high_us[c] = LEVELS * tick_time

----------------------------------------------------------------------------
\* C23: once the seed publish has completed, whenever the Controller is at
\* the 50 ms sleep that ends a tick, the shared RGB_LEVELS equals the levels
\* of its UiState and the shared FRAME_RATE equals the frame rate of its
\* UiState.
C23_CacheAgreesAtSleep ==
    u_pc = "sleep" =>
        /\ RGB_LEVELS = state_levels
        /\ FRAME_RATE = state_frame_rate

\* a tick that changed nothing sleeps after earlier ticks set the frame rate
\* to its maximum and green to 0
C23_Witness ==
    /\ u_pc = "sleep"
    /\ ~changed
    /\ state_frame_rate = map_knob_value(LEVELS - 1, "FrameRate")
    /\ FRAME_RATE = state_frame_rate
    /\ state_levels[1] = 0
    /\ RGB_LEVELS = state_levels

----------------------------------------------------------------------------
\* C24: whenever the Renderer starts a sleep, tick_time is
\* 1_000_000 / (3 * current_frame_rate * LEVELS) in integer division, and
\* current_frame_rate is the value of the Renderer's most recent read of
\* FRAME_RATE: it is the initial frame rate given to Rgb::new at first, every
\* read of FRAME_RATE stores the value read, and no other step changes it.
C24_TimingCoherence ==
    /\ current_frame_rate = FRAME_RATE
    /\ [][ /\ InStep(r_pc') =>
                tick_time' = 1000000 \div (3 * current_frame_rate' * LEVELS)
           /\ (r_pc = "get_frame_rate" /\ r_pc' # r_pc) =>
                current_frame_rate' = FRAME_RATE
           /\ ~(r_pc = "get_frame_rate" /\ r_pc' # r_pc) =>
                current_frame_rate' = current_frame_rate ]_vars

\* the Renderer sleeps in a frame at 10 fps while the shared frame rate has
\* already moved on to 160
C24_Witness ==
    /\ r_pc = "on_sleep"
    /\ current_frame_rate = map_knob_value(0, "FrameRate")
    /\ tick_time = 2083
    /\ sleep_us = levels[led] * tick_time
    /\ FRAME_RATE = map_knob_value(LEVELS - 1, "FrameRate")

====
